---- MODULE Spec2Model ----
\* State persistence of the MQTT broker: FilePersistor (mqtt-broker/src/persist.rs)
\* and the shutdown orchestration of mqttd (mqttd/src/main.rs).
EXTENDS Integers, Sequences, FiniteSets, TLC

\* ---------------------------------------------------------------- bounds
\* Wall-clock instants (milliseconds) a store may read are BaseTime .. BaseTime+MaxTime-1.
MaxTime == 3
\* Non-default BrokerState values are 1 .. MaxState; 0 is BrokerState::default().
MaxState == 1
\* Capacity of the Snapshotter's request channel.
MaxQueue == 2
\* Snapshot triggers (ticks and signals) modelled per process run.
MaxTriggers == 2
\* The wall clock returns one of MaxRunTime instants during one process run.
MaxRunTime == 2

\* ---------------------------------------------------------------- constants
STATE_COUNT == 2
\* One second holds 1000 milliseconds ("%S%.3f").
MillisPerSecond == 1000
MillisPerDay == 86400000
\* The ticker's period, Duration::from_secs(5 * 60), in time units of half a period.
TickPeriod == 2
\* The first instant of the model's clock window: the window straddles a second boundary.
BaseTime == 999

Times == BaseTime .. (BaseTime + MaxTime - 1)
RunTimes == BaseTime .. (BaseTime + MaxRunTime - 1)
BrokerStates == 0 .. MaxState
DefaultState == 0

\* The directory handed to FilePersistor::new, relative to the process working directory:
\*   "."          a relative path naming the working directory itself
\*   "/cwd/state" the absolute path env::current_dir().join("state") (main.rs)
\*   "state"      the relative path of a sub-directory of the working directory
Dirs == {".", "/cwd/state", "state"}
Callers == {"snapshotter", "orchestrator"}

NoPtr == -1
NoFile == [kind |-> "none", data |-> 0]
Partial == [kind |-> "partial", data |-> 0]
NoResult == "none"

VARIABLES
    dir,        \* FilePersistor.dir
    cwdFiles,   \* names state.<t>.dat present in the working directory when it is not dir
    files,      \* the StateFiles of dir: Times -> content
    ptr,        \* the symlink state.dat of dir: NoPtr or the t of its target state.<t>.dat
    store,      \* per caller: the position of its store() call
    pre,        \* history: the directory when the store() in progress was called
    last,       \* history: the last store() that returned
    loaded,     \* history: result of the last load() since the last store() call
    hist,       \* history: successful stores since the directory was empty
    mainPc,     \* position of run() in main.rs
    snapPc,     \* position of the Snapshotter task
    events,     \* the Snapshotter's channel
    owner,      \* who holds the FilePersistor
    brokerState,\* the broker's current in-memory state
    triggers,   \* ticks and signals sent so far in this run
    life,       \* history of the run: accepted requests, attempted stores, final flushes, failures
    exit,       \* the process's exit status
    probe       \* two instants and the file names computed for them

fsVars == <<dir, cwdFiles, files, ptr>>
runVars == <<mainPc, snapPc, events, owner, brokerState, triggers, life, exit, probe>>
vars == <<dir, cwdFiles, files, ptr, store, pre, last, loaded, hist,
          mainPc, snapPc, events, owner, brokerState, triggers, life, exit, probe>>

\* ---------------------------------------------------------------- file names
\* An instant of the wall clock is a day since 1970-01-01 and a millisecond of that day.
\* The civil date of a day, as chrono's NaiveDate computes it (proleptic Gregorian).
CivilFromDays(day) ==
    LET z == day + 719468
        era == z \div 146097
        doe == z - era * 146097
        yoe == (doe - doe \div 1460 + doe \div 36524 - doe \div 146096) \div 365
        doy == doe - (365 * yoe + yoe \div 4 - yoe \div 100)
        mp == (5 * doy + 2) \div 153
        d == doy - (153 * mp + 2) \div 5 + 1
        m == IF mp < 10 THEN mp + 3 ELSE mp - 9
        y == yoe + era * 400 + (IF m <= 2 THEN 1 ELSE 0)
    IN  [year |-> y, month |-> m, day |-> d]

\* Mutant of Digits: the number without its zero padding.
RECURSIVE Digits_NoPadding(_, _)
Digits_NoPadding(n, width) ==
    IF n < 10 THEN <<48 + n>>
    ELSE Digits_NoPadding(n \div 10, width - 1) \o <<48 + (n % 10)>>

\* A number zero-padded to width characters (%m %d %H %M %S, %.3f, and %Y for the years
\* 0000 to 9999), as bytes.
RECURSIVE Digits(_, _)
Digits(n, width) ==
    IF width = 0 THEN <<>>
    ELSE Digits(n \div 10, width - 1) \o <<48 + (n % 10)>>

\* chrono format "%Y-%m-%dT%H:%M:%S%.3f%z" of a UTC instant, as bytes: '-' is 45, 'T' 84,
\* ':' 58, '.' 46, '+' 43, '0' 48. The stem "state." and the extension ".dat" around it
\* are the same for every name.
FormatInstant(day, ms) ==
    LET c == CivilFromDays(day)
        s == ms \div MillisPerSecond
    IN  Digits(c.year, 4) \o <<45>> \o Digits(c.month, 2) \o <<45>> \o Digits(c.day, 2)
        \o <<84>> \o Digits(s \div 3600, 2) \o <<58>> \o Digits((s \div 60) % 60, 2)
        \o <<58>> \o Digits(s % 60, 2) \o <<46>> \o Digits(ms % MillisPerSecond, 3)
        \o <<43, 48, 48, 48, 48>>

\* The name for t milliseconds after 1970-01-01T00:00:00.
FormatTime(t) == FormatInstant(t \div MillisPerDay, t % MillisPerDay)

\* OsString ordering of two file names state.<FormatTime>.dat: byte by byte.
RECURSIVE SeqLess(_, _)
SeqLess(a, b) ==
    IF a = <<>> \/ b = <<>> THEN a = <<>> /\ b # <<>>
    ELSE IF Head(a) # Head(b) THEN Head(a) < Head(b)
    ELSE SeqLess(Tail(a), Tail(b))

\* The names of the instants modelled, and their order.
Names == [t \in Times |-> FormatTime(t)]
NameLess(t1, t2) == SeqLess(Names[t1], Names[t2])

\* entries.sort_unstable_by(|a, b| b.file_name().partial_cmp(&a.file_name())): descending.
RECURSIVE SortDesc(_)
SortDesc(S) ==
    IF S = {} THEN <<>>
    ELSE LET m == CHOOSE x \in S : \A y \in S \ {x} : NameLess(y, x)
         IN  <<m>> \o SortDesc(S \ {m})

\* entries.iter().skip(n)
Skip(s, n) == IF Len(s) <= n THEN <<>> ELSE SubSeq(s, n + 1, Len(s))

\* ---------------------------------------------------------------- file system
\* Does the working directory differ from dir?  remove_file(entry.file_name()) takes a bare
\* file name, which the OS resolves against the working directory.
CwdIsDir == dir = "."

\* symlink(&path, &default_path) stores the text of path = dir.join(name) as the target; a
\* relative target is resolved against the directory holding the link, i.e. dir itself.
LinkResolves == dir \in {".", "/cwd/state"}

\* The file the pointer state.dat leads to (NoFile when absent or dangling).
Target == IF ptr # NoPtr /\ LinkResolves THEN files[ptr] ELSE NoFile

\* Path::exists() on state.dat follows the link.
PointerExists == Target.kind # "none"

\* read_dir(dir) filtered to regular files whose name starts with "state": the symlink
\* state.dat is not a regular file.
Entries == {t \in Times : files[t].kind # "none"}

\* bincode + gzip of a state, and its decoding: a partial stream does not decode.
Encode(s) == [kind |-> "state", data |-> s]
Decodes(c) == c.kind = "state"
Decode(c) == c.data

\* ---------------------------------------------------------------- FilePersistor::load
Ok(s) == [kind |-> "ok", data |-> s]
Err(reason) == [kind |-> reason, data |-> 0]
NotLoaded == [kind |-> "none", data |-> 0]

\* Mutant of LoadResult: load() without the path.exists() test opens the pointer always.
LoadResult_NoExistsTest(openFails) ==
    IF openFails \/ ~PointerExists THEN Err("FileOpen")
    ELSE IF Decodes(Target) THEN Ok(Decode(Target))
    ELSE Err("Deserialize")

\* load(): openFails is the environment refusing OpenOptions::open.
LoadResult(openFails) ==
    IF PointerExists
    THEN IF openFails THEN Err("FileOpen")
         ELSE IF Decodes(Target) THEN Ok(Decode(Target))
         ELSE Err("Deserialize")
    ELSE Ok(DefaultState)

\* What load() would have returned when the store() in progress was called (the open
\* not refused).
PreTarget == IF pre.ptr # NoPtr /\ LinkResolves THEN pre.files[pre.ptr] ELSE NoFile

LoadBefore ==
    IF PreTarget.kind # "none"
    THEN IF Decodes(PreTarget) THEN Ok(Decode(PreTarget)) ELSE Err("Deserialize")
    ELSE Ok(DefaultState)

\* ---------------------------------------------------------------- FilePersistor::store
\* env: did the environment refuse a call of this store() that would have succeeded?
Idle ==
    [pc |-> "idle", state |-> 0, t |-> BaseTime, res |-> NoResult, prune |-> <<>>,
     env |-> FALSE]
NoPre == [files |-> [t \in Times |-> NoFile], ptr |-> NoPtr, allOk |-> FALSE]
NoLast == [state |-> 0, res |-> NoResult]

NoStoreInProgress == \A w \in Callers : store[w].pc = "idle"
InProgress(w) == store[w].pc \notin {"idle", "done"}

Min(a, b) == IF a < b THEN a ELSE b
Max(a, b) == IF a < b THEN b ELSE a

\* store() returns r to its caller. The histories keep whether the last store succeeded
\* and its state; whether every store so far succeeded (allOk); and, while every store
\* so far succeeded at a later instant than the one before it (clean), their number and
\* the latest instant.
Dirty == [n |-> 0, clean |-> FALSE, t |-> BaseTime, allOk |-> FALSE]

Return(w, r, env) ==
    /\ store' = [store EXCEPT ![w].pc = "done", ![w].res = r, ![w].prune = <<>>,
                              ![w].env = env]
    /\ last' = IF r = "ok"
               THEN [state |-> store[w].state, res |-> "ok"]
               ELSE [state |-> 0, res |-> "err"]
    /\ hist' = IF r # "ok" THEN Dirty
               ELSE IF hist.clean /\ (hist.n = 0 \/ hist.t < store[w].t)
               THEN [n |-> Min(hist.n + 1, STATE_COUNT + 1), clean |-> TRUE,
                     t |-> store[w].t, allOk |-> TRUE]
               ELSE [Dirty EXCEPT !.allOk = hist.allOk]

\* store(state) is called at wall-clock instant t: the paths are computed.
StoreBegin(w, s, t) ==
    /\ store[w].pc = "idle"
    /\ store' = [store EXCEPT ![w] = [pc |-> "open", state |-> s, t |-> t,
                                      res |-> NoResult, prune |-> <<>>,
                                      env |-> FALSE]]
    /\ pre' = [files |-> files, ptr |-> ptr, allOk |-> hist.allOk]
    /\ loaded' = NotLoaded
    /\ UNCHANGED <<last, hist>>

\* The caller takes the result of store().
StoreEnd(w) ==
    /\ store[w].pc = "done"
    /\ store' = [store EXCEPT ![w] = Idle]
    /\ pre' = NoPre
    /\ UNCHANGED <<last, loaded, hist>>

\* OpenOptions::new().create(true).write(true).open(&path): creates the file when it is
\* absent, opens an existing file as it is (no create_new, no truncate).
StoreOpen(w) ==
    /\ store[w].pc = "open"
    /\ \/ /\ files' = [files EXCEPT ![store[w].t] =
                          IF @.kind = "none" THEN Partial ELSE @]
          /\ store' = [store EXCEPT ![w].pc = "serialize"]
          /\ UNCHANGED <<last, hist>>
       \/ /\ Return(w, "FileOpen", TRUE)
          /\ UNCHANGED files
    /\ UNCHANGED <<dir, cwdFiles, ptr, pre, loaded>>
    /\ UNCHANGED runVars

\* bincode::serialize_into(encoder, &state): writes from offset 0 of the opened file.
StoreSerialize(w) ==
    /\ store[w].pc = "serialize"
    /\ \/ /\ files' = [files EXCEPT ![store[w].t] = Encode(store[w].state)]
          /\ store' = [store EXCEPT ![w].pc = "swap"]
       \/ /\ files' = [files EXCEPT ![store[w].t] = Partial]
          /\ store' = [store EXCEPT ![w].pc = "cleanup"]
    /\ UNCHANGED <<dir, cwdFiles, ptr, pre, last, loaded, hist>>
    /\ UNCHANGED runVars

\* Err(e) => { fs::remove_file(path)?; return Err(e) }
StoreCleanup(w) ==
    /\ store[w].pc = "cleanup"
    /\ \/ /\ files' = [files EXCEPT ![store[w].t] = NoFile]
          /\ Return(w, "Serialize", TRUE)
       \/ /\ Return(w, "FileUnlink", TRUE)
          /\ UNCHANGED files
    /\ UNCHANGED <<dir, cwdFiles, ptr, pre, loaded>>
    /\ UNCHANGED runVars

\* if default_path.exists() { fs::remove_file(&default_path)? }
StoreSwap(w) ==
    /\ store[w].pc = "swap"
    /\ IF PointerExists
       THEN \/ /\ ptr' = NoPtr
               /\ store' = [store EXCEPT ![w].pc = "symlink"]
               /\ UNCHANGED <<last, hist>>
            \/ /\ Return(w, "SymlinkUnlink", TRUE)
               /\ UNCHANGED ptr
       ELSE /\ store' = [store EXCEPT ![w].pc = "symlink"]
            /\ UNCHANGED <<ptr, last, hist>>
    /\ UNCHANGED <<dir, cwdFiles, files, pre, loaded>>
    /\ UNCHANGED runVars

\* symlink(&path, &default_path)?: fails when state.dat is still there (a dangling link
\* that exists() did not see), or when the environment refuses.
StoreSymlink(w) ==
    /\ store[w].pc = "symlink"
    /\ \/ /\ ptr = NoPtr
          /\ ptr' = store[w].t
          /\ store' = [store EXCEPT ![w].pc = "readdir"]
          /\ UNCHANGED <<last, hist>>
       \/ /\ Return(w, "Symlink", ptr = NoPtr)
          /\ UNCHANGED ptr
    /\ UNCHANGED <<dir, cwdFiles, files, pre, loaded>>
    /\ UNCHANGED runVars

\* fs::read_dir(&dir)?, the filters, the descending sort and skip(STATE_COUNT).
StoreReadDir(w) ==
    /\ store[w].pc = "readdir"
    /\ \/ /\ store' = [store EXCEPT ![w].pc = "prune",
                                    ![w].prune = Skip(SortDesc(Entries), STATE_COUNT)]
          /\ UNCHANGED <<last, hist>>
       \/ Return(w, "ReadDir", TRUE)
    /\ UNCHANGED <<dir, cwdFiles, files, ptr, pre, loaded>>
    /\ UNCHANGED runVars

\* One iteration of the pruning loop: fs::remove_file(entry.file_name())?. The bare name
\* is resolved against the working directory.
StorePrune(w) ==
    /\ store[w].pc = "prune"
    /\ store[w].prune # <<>>
    /\ LET n == Head(store[w].prune)
           present == IF CwdIsDir THEN files[n].kind # "none" ELSE n \in cwdFiles
       IN  \/ /\ present
              /\ IF CwdIsDir
                 THEN files' = [files EXCEPT ![n] = NoFile] /\ UNCHANGED cwdFiles
                 ELSE cwdFiles' = cwdFiles \ {n} /\ UNCHANGED files
              /\ store' = [store EXCEPT ![w].prune = Tail(@)]
              /\ UNCHANGED <<last, hist>>
           \/ /\ Return(w, "FileUnlink", present)
              /\ UNCHANGED <<files, cwdFiles>>
    /\ UNCHANGED <<dir, ptr, pre, loaded>>
    /\ UNCHANGED runVars

\* The loop is over: Ok(()).
StoreFinish(w) ==
    /\ store[w].pc = "prune"
    /\ store[w].prune = <<>>
    /\ Return(w, "ok", FALSE)
    /\ UNCHANGED <<dir, cwdFiles, files, ptr, pre, loaded>>
    /\ UNCHANGED runVars

StoreStep(w) ==
    \/ StoreOpen(w)
    \/ StoreSerialize(w)
    \/ StoreCleanup(w)
    \/ StoreSwap(w)
    \/ StoreSymlink(w)
    \/ StoreReadDir(w)
    \/ StorePrune(w)
    \/ StoreFinish(w)

\* ---------------------------------------------------------------- the persistor alone
\* A client that owns one FilePersistor calls store() and load() on it, one call at a
\* time (&mut self); load() stands for a fresh instance on the same directory.
InitCalls ==
    /\ store = [w \in Callers |-> Idle]
    /\ pre = NoPre
    /\ last = NoLast
    /\ loaded = NotLoaded
    /\ hist = [n |-> 0, clean |-> TRUE, t |-> BaseTime, allOk |-> TRUE]

InitFs ==
    /\ files = [t \in Times |-> NoFile]
    /\ ptr = NoPtr
    /\ InitCalls

\* at is the instant of the ticker's last event: its start, then its last tick.
NoTriggers == [sent |-> 0, pending |-> 0, at |-> 0, deadline |-> 0, ticks |-> 0]

NoProbe == [a |-> <<0, 0>>, b |-> <<0, 0>>, na |-> <<>>, nb |-> <<>>]

NoLife ==
    [accepted |-> 0, attempted |-> 0, completed |-> 0, flushes |-> 0, snapFailed |-> FALSE,
     served |-> FALSE, finalState |-> 0, flushedState |-> 0,
     finalRes |-> NoResult, duringStore |-> FALSE, phase |-> "Running",
     inOrder |-> TRUE]

InitRunIdle ==
    /\ mainPc = "client"
    /\ snapPc = "none"
    /\ events = <<>>
    /\ owner = "orchestrator"
    /\ brokerState = DefaultState
    /\ triggers = NoTriggers
    /\ life = NoLife
    /\ exit = "running"

\* The directory starts empty. A working directory other than dir holds either no file
\* named like a StateFile or one for every name.
Init ==
    /\ dir \in Dirs
    /\ cwdFiles \in IF dir = "." THEN {{}} ELSE {{}, Times}
    /\ InitFs
    /\ InitRunIdle
    /\ probe = NoProbe

CallStore(w, s, t) ==
    /\ owner = w
    /\ NoStoreInProgress
    /\ StoreBegin(w, s, t)
    /\ UNCHANGED fsVars
    /\ UNCHANGED runVars

StoreReturned(w) ==
    /\ StoreEnd(w)
    /\ UNCHANGED fsVars
    /\ UNCHANGED runVars

CallLoad(openFails) ==
    /\ NoStoreInProgress
    /\ loaded' = LoadResult(openFails)
    /\ UNCHANGED <<store, pre, last, hist>>
    /\ UNCHANGED fsVars
    /\ UNCHANGED runVars

Next ==
    \/ \E w \in Callers, s \in BrokerStates, t \in Times : CallStore(w, s, t)
    \/ \E w \in Callers : StoreStep(w)
    \/ \E w \in Callers : StoreReturned(w)
    \/ \E b \in BOOLEAN : CallLoad(b)

Spec == Init /\ [][Next]_vars

\* ---------------------------------------------------------------- the names alone
\* The file name of store() as a function of the instant, on pairs of instants around the
\* places where a field of the name rolls over: second, minute, hour (one and two
\* digits), day, month (one and two digits), leap day, year, century.
ProbeDays == {0, 272, 273, 364, 365, 10956, 10957, 19782, 19783, 2932896}
ProbeMillis == {0, 999, 1000, 59999, 60000, 3599999, 3600000, 35999999, 36000000,
                MillisPerDay - 1}
Instants == ProbeDays \X ProbeMillis

\* t1 < t2 for two instants <<day, millisecond of the day>>.
Before(i, j) == i[1] < j[1] \/ (i[1] = j[1] /\ i[2] < j[2])

InitNames ==
    /\ dir = "."
    /\ cwdFiles = {}
    /\ InitFs
    /\ InitRunIdle
    /\ probe \in [a : Instants, b : Instants, na : {<<>>}, nb : {<<>>}]

\* let path = self.dir.join(format!("{}.{}.{}", STATE_DEFAULT_STEM, timestamp, ext)), for
\* two calls of store() at the instants a and b.
FormatNames ==
    /\ probe.na = <<>>
    /\ probe' = [probe EXCEPT !.na = FormatInstant(probe.a[1], probe.a[2]),
                              !.nb = FormatInstant(probe.b[1], probe.b[2])]
    /\ UNCHANGED <<dir, cwdFiles, files, ptr, store, pre, last, loaded, hist>>
    /\ UNCHANGED <<mainPc, snapPc, events, owner, brokerState, triggers, life, exit>>

NextNames == FormatNames

SpecNames == InitNames /\ [][NextNames]_vars

\* ---------------------------------------------------------------- mqttd: run()
\* The process of main.rs: the orchestrator run(), the Snapshotter task, the broker's
\* serving loop and the two trigger tasks. dir is env::current_dir().join("state").
StateEvent(s) == [kind |-> "State", state |-> s]
ShutdownEvent == [kind |-> "Shutdown", state |-> 0]

histUnchanged == UNCHANGED <<store, pre, last, loaded, hist>>

\* main(): run().await? then Ok(()) - the process ends with run()'s result.
Exit(status) ==
    /\ mainPc' = "exited"
    /\ exit' = status

\* Mutant of MainLoad: a failed load is replaced by the default state and run() goes on.
MainLoad_IgnoreError(openFails) ==
    /\ mainPc = "load"
    /\ loaded' = LoadResult(openFails)
    /\ mainPc' = "start"
    /\ brokerState' = loaded'.data
    /\ UNCHANGED exit
    /\ UNCHANGED <<store, pre, last, hist>>
    /\ UNCHANGED fsVars
    /\ UNCHANGED probe
    /\ UNCHANGED <<snapPc, events, owner, triggers, life>>

\* persistor.load()?: an error ends run() before the broker is built.
MainLoad(openFails) ==
    /\ mainPc = "load"
    /\ loaded' = LoadResult(openFails)
    /\ IF loaded'.kind = "ok"
       THEN /\ mainPc' = "start"
            /\ brokerState' = loaded'.data
            /\ UNCHANGED exit
       ELSE /\ Exit("err")
            /\ UNCHANGED brokerState
    /\ UNCHANGED <<store, pre, last, hist>>
    /\ UNCHANGED fsVars
    /\ UNCHANGED probe
    /\ UNCHANGED <<snapPc, events, owner, triggers, life>>

\* Mutant of FirstTick: tokio::time::interval(period), whose first tick is immediate.
FirstTick_Immediate(now) == now

\* let start = Instant::now() + period; interval_at(start, period): the first deadline.
FirstTick(now) == now + TickPeriod

\* The broker is built; Snapshotter::new(persistor) takes the persistor and its run() is
\* spawned; the tick and signal tasks are spawned; the transports are created (an error
\* there ends run()).
MainStart(transportsFail) ==
    /\ mainPc = "start"
    /\ owner' = "snapshotter"
    /\ snapPc' = "recv"
    /\ IF transportsFail
       THEN Exit("err")
       ELSE mainPc' = "serve" /\ UNCHANGED exit
    /\ triggers' = [triggers EXCEPT !.deadline = FirstTick(triggers.at)]
    /\ histUnchanged
    /\ UNCHANGED fsVars
    /\ UNCHANGED probe
    /\ UNCHANGED <<events, brokerState, life>>

\* Clients change the broker's session state while it serves.
BrokerMutate(s) ==
    /\ mainPc = "serve"
    /\ s # brokerState
    /\ brokerState' = s
    /\ histUnchanged
    /\ UNCHANGED fsVars
    /\ UNCHANGED probe
    /\ UNCHANGED <<mainPc, snapPc, events, owner, triggers, life, exit>>

\* try_send of System(StateSnapshot(handle)) to the broker's control channel: the message
\* is queued while the broker serves; otherwise the send fails.
SendFails(sendFails) == sendFails \/ mainPc # "serve"

Sent(sendFails) ==
    [triggers EXCEPT !.sent = @ + 1,
                     !.pending = IF SendFails(sendFails) THEN @ ELSE @ + 1]

TriggersRunning == mainPc \notin {"client", "load", "start", "exited"}

\* tick_snapshot: one iteration of the loop. interval.tick().await completes when its
\* deadline is reached and arms the next deadline one period after this one; the message
\* is sent, and a failed send is only logged: the loop goes on.
TickSnapshot(sendFails) ==
    /\ TriggersRunning
    /\ triggers.sent < MaxTriggers
    /\ triggers' = [Sent(sendFails) EXCEPT
                       !.at = Max(@, triggers.deadline),
                       !.deadline = @ + TickPeriod,
                       !.ticks = @ + 1]
    /\ histUnchanged
    /\ UNCHANGED fsVars
    /\ UNCHANGED probe
    /\ UNCHANGED <<mainPc, snapPc, events, owner, brokerState, life, exit>>

\* snapshot::snapshot: the operator's signal arrived; the same message is sent.
SignalSnapshot(sendFails) ==
    /\ TriggersRunning
    /\ triggers.sent < MaxTriggers
    /\ triggers' = Sent(sendFails)
    /\ histUnchanged
    /\ UNCHANGED fsVars
    /\ UNCHANGED probe
    /\ UNCHANGED <<mainPc, snapPc, events, owner, brokerState, life, exit>>

\* The broker handles a StateSnapshot message: it exports its state and sends it through
\* the handle; the Snapshotter's channel takes it unless it is full.
BrokerSnapshot ==
    /\ mainPc = "serve"
    /\ triggers.pending > 0
    /\ triggers' = [triggers EXCEPT !.pending = @ - 1]
    /\ IF Len(events) < MaxQueue
       THEN /\ events' = Append(events, StateEvent(brokerState))
            /\ life' = [life EXCEPT !.accepted = @ + 1]
       ELSE UNCHANGED <<events, life>>
    /\ histUnchanged
    /\ UNCHANGED fsVars
    /\ UNCHANGED probe
    /\ UNCHANGED <<mainPc, snapPc, owner, brokerState, exit>>

\* Server::serve(transports, shutdown).await?: the shutdown signal ends the serving loop,
\* which yields the broker's final state, or the server fails.
ServeEnds(fails) ==
    /\ mainPc = "serve"
    /\ IF fails
       THEN Exit("err") /\ UNCHANGED life
       ELSE /\ mainPc' = "try_shutdown"
            /\ life' = [life EXCEPT !.served = TRUE, !.finalState = brokerState]
            /\ UNCHANGED exit
    /\ histUnchanged
    /\ UNCHANGED fsVars
    /\ UNCHANGED probe
    /\ UNCHANGED <<snapPc, events, owner, brokerState, triggers>>

\* shutdown_handle.try_shutdown()?: the request is queued behind the requests already in
\* the channel; when the channel cannot take it, run() ends with the error.
TryShutdown ==
    /\ mainPc = "try_shutdown"
    /\ IF Len(events) < MaxQueue
       THEN /\ events' = Append(events, ShutdownEvent)
            /\ mainPc' = "join"
            /\ life' = [life EXCEPT !.phase = "ShutdownRequested",
                                    !.inOrder = @ /\ life.phase = "Running",
                                    !.duringStore = InProgress("snapshotter")]
            /\ UNCHANGED exit
       ELSE /\ Exit("err")
            /\ UNCHANGED <<events, life>>
    /\ histUnchanged
    /\ UNCHANGED fsVars
    /\ UNCHANGED probe
    /\ UNCHANGED <<snapPc, owner, brokerState, triggers>>

\* Mutant of JoinSnapshotter: the persistor is taken without awaiting the task.
JoinSnapshotter_NoAwait ==
    /\ mainPc = "join"
    /\ mainPc' = "final_store"
    /\ owner' = "orchestrator"
    /\ histUnchanged
    /\ UNCHANGED fsVars
    /\ UNCHANGED probe
    /\ UNCHANGED <<snapPc, events, brokerState, triggers, life, exit>>

\* join_handle.await??: completes when the Snapshotter task has returned; its value is
\* the persistor.
JoinSnapshotter ==
    /\ mainPc = "join"
    /\ snapPc = "returned"
    /\ mainPc' = "final_store"
    /\ owner' = "orchestrator"
    /\ histUnchanged
    /\ UNCHANGED fsVars
    /\ UNCHANGED probe
    /\ UNCHANGED <<snapPc, events, brokerState, triggers, life, exit>>

\* Mutant of FinalStore: the final store is started right after try_shutdown(), on a
\* second persistor, without joining the Snapshotter.
FinalStore_BeforeJoin(t) ==
    /\ mainPc \in {"join", "final_store"}
    /\ StoreBegin("orchestrator", life.finalState, t)
    /\ mainPc' = "storing"
    /\ life' = [life EXCEPT !.flushes = @ + 1, !.flushedState = life.finalState,
                            !.phase = "Stopped", !.duringStore = FALSE,
                            !.inOrder = @ /\ life.phase = "Draining"]
    /\ UNCHANGED fsVars
    /\ UNCHANGED probe
    /\ UNCHANGED <<snapPc, events, owner, brokerState, triggers, exit>>

\* persistor.store(state) is called with the state serve() yielded.
FinalStore(t) ==
    /\ mainPc = "final_store"
    /\ StoreBegin("orchestrator", life.finalState, t)
    /\ mainPc' = "storing"
    /\ life' = [life EXCEPT !.flushes = @ + 1, !.flushedState = life.finalState,
                            !.phase = "Stopped", !.duringStore = FALSE,
                            !.inOrder = @ /\ life.phase = "Draining"]
    /\ UNCHANGED fsVars
    /\ UNCHANGED probe
    /\ UNCHANGED <<snapPc, events, owner, brokerState, triggers, exit>>

\* Mutant of FinalStored: the result of the final store is dropped (no `?`).
FinalStored_IgnoreResult ==
    /\ mainPc = "storing"
    /\ StoreEnd("orchestrator")
    /\ Exit("ok")
    /\ life' = [life EXCEPT !.finalRes = store["orchestrator"].res]
    /\ UNCHANGED fsVars
    /\ UNCHANGED probe
    /\ UNCHANGED <<snapPc, events, owner, brokerState, triggers>>

\* persistor.store(state)?; Ok(()): the result of the final store is run()'s result.
FinalStored ==
    /\ mainPc = "storing"
    /\ StoreEnd("orchestrator")
    /\ Exit(IF store["orchestrator"].res = "ok" THEN "ok" ELSE "err")
    /\ life' = [life EXCEPT !.finalRes = store["orchestrator"].res]
    /\ UNCHANGED fsVars
    /\ UNCHANGED probe
    /\ UNCHANGED <<snapPc, events, owner, brokerState, triggers>>

\* ---------------------------------------------------------------- Snapshotter
\* The Snapshotter's loop takes the next event when the store before it has returned:
\* a state is stored at instant t.
SnapshotterStore(t) ==
    /\ mainPc # "exited"
    /\ snapPc = "recv"
    /\ events # <<>>
    /\ Head(events).kind = "State"
    /\ events' = Tail(events)
    /\ StoreBegin("snapshotter", Head(events).state, t)
    /\ snapPc' = "storing"
    /\ life' = [life EXCEPT !.attempted = @ + 1]
    /\ UNCHANGED fsVars
    /\ UNCHANGED probe
    /\ UNCHANGED <<mainPc, owner, brokerState, triggers, exit>>

\* Mutant of SnapshotterStored: a store error ends the loop.
SnapshotterStored_StopOnError ==
    /\ mainPc # "exited"
    /\ snapPc = "storing"
    /\ StoreEnd("snapshotter")
    /\ snapPc' = IF store["snapshotter"].res = "ok" THEN "recv" ELSE "returned"
    /\ life' = [life EXCEPT !.completed = @ + 1,
                            !.snapFailed = @ \/ store["snapshotter"].res # "ok"]
    /\ UNCHANGED fsVars
    /\ UNCHANGED probe
    /\ UNCHANGED <<mainPc, events, owner, brokerState, triggers, exit>>

\* The store returned: an error is logged and the loop goes on.
SnapshotterStored ==
    /\ mainPc # "exited"
    /\ snapPc = "storing"
    /\ StoreEnd("snapshotter")
    /\ snapPc' = "recv"
    /\ life' = [life EXCEPT !.completed = @ + 1,
                            !.snapFailed = @ \/ store["snapshotter"].res # "ok"]
    /\ UNCHANGED fsVars
    /\ UNCHANGED probe
    /\ UNCHANGED <<mainPc, events, owner, brokerState, triggers, exit>>

\* Mutant of SnapshotterShutdown: the shutdown request is also taken while a store is in
\* progress, which is abandoned.
SnapshotterShutdown_MidStore ==
    /\ mainPc # "exited"
    /\ snapPc \in {"recv", "storing"}
    /\ events # <<>>
    /\ Head(events).kind = "Shutdown"
    /\ events' = Tail(events)
    /\ snapPc' = "returned"
    /\ life' = [life EXCEPT !.phase = "Draining",
                            !.inOrder = @ /\ life.phase = "ShutdownRequested"]
    /\ histUnchanged
    /\ UNCHANGED fsVars
    /\ UNCHANGED probe
    /\ UNCHANGED <<mainPc, owner, brokerState, triggers, exit>>

\* The shutdown request is taken from the channel: the loop ends and run() returns
\* the persistor.
SnapshotterShutdown ==
    /\ mainPc # "exited"
    /\ snapPc = "recv"
    /\ events # <<>>
    /\ Head(events).kind = "Shutdown"
    /\ events' = Tail(events)
    /\ snapPc' = "returned"
    /\ life' = [life EXCEPT !.phase = "Draining",
                            !.inOrder = @ /\ life.phase = "ShutdownRequested"]
    /\ histUnchanged
    /\ UNCHANGED fsVars
    /\ UNCHANGED probe
    /\ UNCHANGED <<mainPc, owner, brokerState, triggers, exit>>

\* A step of a store() in progress, while the process lives.
RunStoreStep(w) ==
    /\ mainPc # "exited"
    /\ StoreStep(w)

\* The process starts on an empty state directory, or on one whose pointer leads to a
\* StateFile that an earlier run left incomplete.
InitRun ==
    /\ dir = "/cwd/state"
    /\ cwdFiles = {}
    /\ \E f \in {NoFile, Partial} :
          /\ files = [t \in Times |-> IF t = BaseTime THEN f ELSE NoFile]
          /\ ptr = IF f = NoFile THEN NoPtr ELSE BaseTime
    /\ InitCalls
    /\ mainPc = "load"
    /\ snapPc = "none"
    /\ events = <<>>
    /\ owner = "orchestrator"
    /\ brokerState = DefaultState
    /\ triggers = NoTriggers
    /\ life = NoLife
    /\ exit = "running"
    /\ probe = NoProbe

NextRun ==
    \/ \E b \in BOOLEAN : MainLoad(b)
    \/ \E b \in BOOLEAN : MainStart(b)
    \/ \E s \in BrokerStates : BrokerMutate(s)
    \/ \E b \in BOOLEAN : TickSnapshot(b)
    \/ \E b \in BOOLEAN : SignalSnapshot(b)
    \/ BrokerSnapshot
    \/ \E b \in BOOLEAN : ServeEnds(b)
    \/ TryShutdown
    \/ JoinSnapshotter
    \/ \E t \in RunTimes : FinalStore(t)
    \/ FinalStored
    \/ \E t \in RunTimes : SnapshotterStore(t)
    \/ SnapshotterStored
    \/ SnapshotterShutdown
    \/ \E w \in Callers : RunStoreStep(w)

SpecRun == InitRun /\ [][NextRun]_vars

\* ================================================================ claims
\* C1 (as claimed): round trip. When store(S) returned success and a load() was performed
\* next, that load returns S. Stated for the most favourable case: a directory whose
\* pointer resolves (an absolute dir, or the working directory), every store so far
\* succeeded, and the environment did not refuse the load's open.
C1_RoundTrip ==
    (LinkResolves /\ hist.allOk /\ last.res = "ok" /\ loaded.kind \notin {"none", "FileOpen"})
        => loaded = Ok(last.state)

\* C2 (as claimed): pointer invariant. In every state, also inside a store, the pointer
\* state.dat, when present, leads to a StateFile that exists and was written completely.
\* Stated for the most favourable case: a directory whose pointer resolves and in which
\* every store that returned so far succeeded.
C2_PointerInvariant ==
    (LinkResolves /\ hist.allOk /\ ptr # NoPtr) => Target.kind = "state"

\* C3 (as claimed): retention. After more than STATE_COUNT stores on an initially empty
\* directory, all successful and at strictly increasing instants, the directory holds
\* exactly STATE_COUNT StateFiles, the latest by file name, and the pointer references the
\* file of the latest store.
C3_Retention ==
    (NoStoreInProgress /\ hist.clean /\ hist.n > STATE_COUNT)
        => /\ Cardinality(Entries) = STATE_COUNT
           /\ \A t \in Entries : \A u \in Times \ Entries : NameLess(u, t)
           /\ ptr = hist.t

\* C4 (as claimed): a failed write leaves the directory unchanged. When store() returns
\* the Serialize error, no file that was absent at the call is there, every completely
\* written StateFile of the call's time is there unmodified, and the pointer is the same.
\* Stated for the most favourable case: a directory whose pointer resolves and in which
\* every earlier store succeeded.
C4_FailedWriteUnchanged ==
    \A w \in Callers :
        (LinkResolves /\ pre.allOk /\ store[w].pc = "done" /\ store[w].res = "Serialize")
            => /\ \A t \in Times :
                    /\ pre.files[t].kind = "none" => files[t].kind = "none"
                    /\ pre.files[t].kind = "state" => files[t] = pre.files[t]
               /\ ptr = pre.ptr

\* C5: load() on a directory with no pointer returns Ok(BrokerState::default()), and no
\* load() changes the directory.
C5_LoadNoPointer ==
    /\ []((loaded.kind # "none" /\ ptr = NoPtr) => loaded = Ok(DefaultState))
    /\ [][(loaded' # loaded /\ loaded'.kind # "none") => UNCHANGED fsVars]_vars

C5_Witness == loaded = Ok(DefaultState) /\ ptr = NoPtr /\ last.res # NoResult

\* C6: mutual exclusion of stores. At most one store() is in progress at any time, only
\* the holder of the persistor stores, and the Snapshotter waits for a request only when
\* its store before it has returned.
C6_MutualExclusion ==
    /\ ~(InProgress("snapshotter") /\ InProgress("orchestrator"))
    /\ \A w \in Callers : store[w].pc # "idle" => owner = w
    /\ snapPc = "recv" => store["snapshotter"].pc = "idle"

C6_Witness ==
    /\ InProgress("snapshotter")
    /\ events # <<>>
    /\ Head(events).kind = "State"

\* C7: shutdown is non-preemptive. Once the Snapshotter has returned its persistor, or
\* the orchestrator holds it, no store of the Snapshotter is in progress or unreturned.
C7_NonPreemptive ==
    (snapPc = "returned" \/ owner = "orchestrator") => store["snapshotter"].pc = "idle"

C7_Witness ==
    /\ life.duringStore
    /\ mainPc = "final_store"
    /\ owner = "orchestrator"

\* C8 (as claimed): final flush. When the process has ended after serve() yielded the
\* final state, exactly one final store of that state was performed by the orchestrator
\* holding the reclaimed persistor, with the phases Running, ShutdownRequested, Draining,
\* Stopped passed in that order.
C8_FinalFlush ==
    (exit # "running" /\ life.served)
        => /\ life.flushes = 1
           /\ life.flushedState = life.finalState
           /\ life.phase = "Stopped"
           /\ life.inOrder
           /\ owner = "orchestrator"
           /\ snapPc = "returned"

\* C9: a failed store does not end the Snapshotter. It returns only on the shutdown
\* request, and by then every request its channel took has had its store attempted.
C9_SnapshotterSurvives ==
    snapPc = "returned"
        => /\ life.phase \in {"Draining", "Stopped"}
           /\ life.attempted = life.accepted

\* The Snapshotter returned after a store of its own that failed and a later one that
\* succeeded.
C9_Witness ==
    /\ snapPc = "returned"
    /\ mainPc = "join"
    /\ life.snapFailed
    /\ last.res = "ok"

\* C10: exit status. A failed final store ends the process with an error; when the final
\* store succeeded the process ends with success, whatever the Snapshotter's stores did.
C10_ExitStatus ==
    exit # "running"
        => /\ life.finalRes \notin {"ok", NoResult} => exit = "err"
           /\ life.finalRes = "ok" => exit = "ok"

C10_Witness ==
    /\ life.snapFailed
    /\ life.finalRes = "ok"
    /\ exit = "ok"

\* C11: file-name order equals time order. For two instants t1 and t2 (millisecond
\* precision, years 0000 to 9999) the file name generated for t1 is below the one for t2
\* in byte order exactly when t1 < t2, so sorting names descending is sorting newest first.
C11_NameOrder ==
    probe.na # <<>> => (Before(probe.a, probe.b) <=> SeqLess(probe.na, probe.nb))

\* Two instants on either side of 10 o'clock, named.
C11_Witness ==
    /\ probe.na # <<>>
    /\ probe.a = <<19782, 35999999>>
    /\ probe.b = <<19782, 36000000>>
    /\ SeqLess(probe.na, probe.nb)

\* C12 (as claimed): retention deletions are scoped to the state directory. No step of
\* store() removes a file of the working directory when that is not dir. Stated for the
\* favourable case that every store so far succeeded.
C12_DeletionsInDir == [][hist.allOk => cwdFiles' = cwdFiles]_vars

\* C13 (as claimed): each store creates a new file. The file store() has opened for
\* writing did not exist when store() was called, same millisecond or not. Stated for the
\* favourable case that every store before succeeded.
C13_NewFile ==
    \A w \in Callers :
        (pre.allOk /\ store[w].pc = "serialize") => pre.files[store[w].t].kind = "none"

\* C14: periodic ticker. The k-th tick is sent no earlier than k full periods after the
\* ticker started (so none at boot), and after every tick, whether its send succeeded or
\* failed, the next one is armed one period after the last deadline.
C14_PeriodicTicker ==
    /\ triggers.ticks * TickPeriod <= triggers.at
    /\ snapPc # "none" => triggers.deadline = (triggers.ticks + 1) * TickPeriod

\* Two ticks were sent while the broker served and neither reached it: the second tick was
\* sent after the first one's send had failed.
C14_Witness ==
    /\ mainPc = "serve"
    /\ triggers.ticks = 2
    /\ triggers.pending = 0
    /\ life.accepted = 0
    /\ triggers.at >= 2 * TickPeriod

\* C15: a startup load failure aborts startup. When load() returned FileOpen or
\* Deserialize the process has ended with an error: the broker was not built, neither the
\* Snapshotter nor a trigger task was started, and no store() was called.
C15_LoadFailureAborts ==
    loaded.kind \in {"FileOpen", "Deserialize"}
        => /\ mainPc = "exited"
           /\ exit = "err"
           /\ snapPc = "none"
           /\ owner = "orchestrator"
           /\ triggers = NoTriggers
           /\ NoStoreInProgress
           /\ last = NoLast
           /\ life = NoLife

\* The pointer led to an incomplete StateFile and load() returned Deserialize.
C15_Witness ==
    /\ loaded.kind = "Deserialize"
    /\ Target.kind = "partial"
    /\ exit = "err"

\* C16: draining refuses new work. Once the Snapshotter has begun draining it has
\* returned: every store it began has run to completion, none is in progress, and no
\* request is left in its channel to be stored.
C16_DrainingRefuses ==
    life.phase \in {"Draining", "Stopped"}
        => /\ snapPc = "returned"
           /\ store["snapshotter"] = Idle
           /\ life.completed = life.attempted
           /\ events = <<>>

\* The shutdown request arrived while a store was in progress, and the Snapshotter
\* returned after completing it.
C16_Witness ==
    /\ snapPc = "returned"
    /\ mainPc = "join"
    /\ life.duringStore
    /\ life.completed > 0

\* C17 (as claimed): failure atomicity for every error kind. When store() has returned an
\* error, a load() returns what a load() would have returned just before the call. Stated
\* for the favourable case: a pointer that resolves and every store before succeeded.
C17_FailureAtomicity ==
    \A w \in Callers :
        (LinkResolves /\ pre.allOk /\ store[w].pc = "done" /\ store[w].res # "ok")
            => LoadResult(FALSE) = LoadBefore

\* C18 (as claimed): retention never deletes the current state. While store() prunes, and
\* when it has returned success, the StateFile it wrote and pointed the pointer at is in
\* the directory. Stated for the favourable case: a pointer that resolves and every store
\* before succeeded.
C18_KeepsCurrent ==
    \A w \in Callers :
        (/\ LinkResolves
         /\ pre.allOk
         /\ store[w].pc = "prune" \/ (store[w].pc = "done" /\ store[w].res = "ok"))
            => files[store[w].t] = Encode(store[w].state)

\* C19 (as claimed): the pointer swap always completes after a successful write. When
\* store() has returned and the environment refused none of its calls, the pointer
\* references the file it wrote, whatever the pointer was before. Stated for a pointer
\* whose target text resolves.
C19_SwapCompletes ==
    \A w \in Callers :
        (LinkResolves /\ store[w].pc = "done" /\ ~store[w].env)
            => /\ ptr = store[w].t
               /\ store[w].res \in {"ok", "FileUnlink"}

====
